---- MODULE Spec2Model ----
(***************************************************************************)
(* The four-layer DAG iteration engine of                                  *)
(* src/mcp_feedback_enhanced/dag_tools/four_layer_iterator.py:             *)
(* IterationStrategy, ConvergenceEvaluator, LayerOptimizer and             *)
(* FourLayerIterator.iterate_build.                                        *)
(*                                                                         *)
(* Representation.  Python dicts are functions with a string domain (the   *)
(* empty dict is <<>>).  Floats are fixed-point integers: scores and       *)
(* weights in units of 1/Scale, layer priorities in tenths; a division     *)
(* truncates.  optimization_time and the last_modified timestamp are wall  *)
(* clock readings and are left out of the metrics / kept as a constant.    *)
(***************************************************************************)
EXTENDS Integers, Sequences, FiniteSets, TLC

VARIABLES
    config,              \* FourLayerIterator.config (IterationConfig)
    feedback_callback,   \* TRUE iff a feedback callback is registered
    progress_callback,   \* TRUE iff a progress callback is registered
    strategy,            \* FourLayerIterator.strategy (IterationStrategy)
    history,             \* convergence_evaluator.history
    current_phase,       \* FourLayerIterator.current_phase
    current_iteration,   \* FourLayerIterator.current_iteration
    iteration_history,   \* FourLayerIterator.iteration_history
    dag,                 \* the UnifiedDAGModel passed to iterate_build
    initial_requirements,\* the argument of the running iterate_build call
    pc,                  \* position inside iterate_build
    pending,             \* optimizer tasks of the current round not yet run
    metrics,             \* local variable metrics of iterate_build
    user_feedback,       \* local variable user_feedback of iterate_build
    outcome,             \* how the last iterate_build call ended
    store_fails,         \* TRUE iff the data store may raise when used
    runs,                \* number of iterate_build calls made so far
    sub_scores,          \* the four sub-scores of the latest evaluation
    strategy_before,     \* the strategy when the latest feedback arrived
    decisions,           \* what the feedback callback has returned so far
    dag0,                \* the data store as it was handed to the first call
    calls,               \* number of pure-function calls (harness specs)
    failed_task,         \* the layer whose optimizer raised in this round, or "none"
    callback_error       \* TRUE iff _safe_callback caught an exception in this round

vars == << config, feedback_callback, progress_callback, strategy, history,
           current_phase, current_iteration, iteration_history, dag,
           initial_requirements, pc, pending, metrics, user_feedback,
           outcome, store_fails, runs, sub_scores, strategy_before,
           decisions, dag0, calls, failed_task, callback_error >>

(***************************************************************************)
(* Bounds of the model.                                                    *)
(***************************************************************************)
MaxIterations == 5      \* largest config.max_iterations drawn
MaxAppends == 110       \* add_metrics calls in HistorySpec
MaxPasses == 4          \* optimize calls in OptimizerSpec
MaxFeedbacks == 3       \* _process_user_feedback calls in FeedbackSpec
MaxNodes == 12          \* nodes of the populated layer in ScoreSpec
MaxEdges == 14          \* edges of the populated layer in ScoreSpec
MaxLongRounds == 52     \* max_iterations of the long run in LongRunSpec
MaxSecondRunIterations == 3  \* max_iterations of the iterator called twice in SecondRunSpec
MaxCalls == 2           \* iterate_build calls on one iterator in ReuseSpec
MaxReuseIterations == 1 \* largest config.max_iterations drawn in ReuseSpec

(***************************************************************************)
(* Units.                                                                  *)
(***************************************************************************)
Scale == 1000           \* a score s is the float s / Scale
MIN_PRIORITY == 1       \* 0.1 in tenths
MAX_PRIORITY == 20      \* 2.0 in tenths
DEFAULT_PRIORITY == 10  \* 1.0 in tenths, the .get default of adjust_priorities
MAX_HISTORY == 50       \* history entries kept by add_metrics

Min(a, b) == IF a < b THEN a ELSE b
Max(a, b) == IF a > b THEN a ELSE b

(***************************************************************************)
(* Python dict helpers.                                                    *)
(***************************************************************************)
EmptyDict == << >>
DictGet(d, k, default) == IF k \in DOMAIN d THEN d[k] ELSE default
DictPut(d, k, v) == [x \in DOMAIN d \cup {k} |-> IF x = k THEN v ELSE d[x]]
DictUpdate(d, e) == [x \in DOMAIN d \cup DOMAIN e |-> IF x \in DOMAIN e THEN e[x] ELSE d[x]]
None == [none |-> TRUE]

RECURSIVE SumSeq(_)
SumSeq(s) == IF s = << >> THEN 0 ELSE Head(s) + SumSeq(Tail(s))

(***************************************************************************)
(* Enumerations.                                                           *)
(***************************************************************************)
LayerType == << "function", "logic", "code", "order" >>
LayerValues == { LayerType[i] : i \in DOMAIN LayerType }
OptimizationFocus == { "structure", "dependencies", "completeness", "consistency", "quality" }
IterationPhase == { "initializing", "iterating", "waiting_feedback",
                    "processing_feedback", "finalizing", "completed", "error" }

(***************************************************************************)
(* IterationStrategy.                                                      *)
(***************************************************************************)
IterationStrategy ==
    [ current_focus |-> "structure",
      layer_priorities |-> [ function |-> 10, logic |-> 8, code |-> 6, order |-> 4 ],
      optimization_params |-> EmptyDict ]

\* the clamp without its upper limit
new_priority_unclamped(current_priority, priority_delta) ==
    Max(MIN_PRIORITY, current_priority + priority_delta)

\* max(0.1, min(2.0, current_priority + priority_delta))
new_priority(current_priority, priority_delta) ==
    Max(MIN_PRIORITY, Min(MAX_PRIORITY, current_priority + priority_delta))

\* adjust_priorities without the test that the name is a layer name
adjust_priorities_accepting_any_name(s, feedback) ==
    IF "layer_feedback" \in DOMAIN feedback
    THEN LET lf == feedback["layer_feedback"]
         IN  [ s EXCEPT !.layer_priorities =
                 [ l \in DOMAIN s.layer_priorities \cup DOMAIN lf |->
                     IF l \in DOMAIN lf
                     THEN new_priority(DictGet(s.layer_priorities, l, DEFAULT_PRIORITY), lf[l])
                     ELSE s.layer_priorities[l] ] ]
    ELSE s

\* IterationStrategy.adjust_priorities: the entries of feedback["layer_feedback"]
\* have distinct keys, so the loop over them is a pointwise update.
adjust_priorities(s, feedback) ==
    IF "layer_feedback" \in DOMAIN feedback
    THEN LET lf == feedback["layer_feedback"]
         IN  [ s EXCEPT !.layer_priorities =
                 [ l \in DOMAIN s.layer_priorities \cup (DOMAIN lf \cap LayerValues) |->
                     IF l \in DOMAIN lf
                     THEN new_priority(DictGet(s.layer_priorities, l, DEFAULT_PRIORITY), lf[l])
                     ELSE s.layer_priorities[l] ] ]
    ELSE s

(***************************************************************************)
(* The data store (UnifiedDAGModel of ..dag_models, an external            *)
(* collaborator): per layer a node collection and an edge collection,      *)
(* cross-layer mapping tables, a state bag and a metadata bag.  Nodes and  *)
(* edges are kept by identifier; node i of layer L stands for "<L>_<i>".   *)
(* mappings[L] is the set of nodes of L that have at least one mapping     *)
(* into the next layer.                                                    *)
(***************************************************************************)
get_layer_data(d, layer_type) == d.layers[layer_type]

get_cross_layer_mappings(d, from_layer, to_layer, node_id) ==
    IF from_layer \in DOMAIN d.mappings /\ node_id \in d.mappings[from_layer]
    THEN << node_id >> ELSE << >>

add_node(d, layer_type, node_id) ==
    [ d EXCEPT !.layers[layer_type].nodes = @ \cup { node_id } ]

len(collection) == Cardinality(collection)

(***************************************************************************)
(* ConvergenceEvaluator.                                                   *)
(***************************************************************************)
\* lines 173-182: the score of one layer that has at least one node
structure_layer_score(n, e) ==
    LET node_score == Min(Scale, (n * Scale) \div 5)
        connectivity_score ==
            IF n > 1
            THEN Min(Scale, (e * Scale * 10) \div Max(1, n * (n - 1)))
            ELSE 0
    IN  (node_score + connectivity_score) \div 2

_evaluate_structure_completeness(d) ==
    LET present == { l \in LayerValues : len(get_layer_data(d, l).nodes) > 0 }
        layer_count == Cardinality(present)
        score(i) == IF LayerType[i] \in present
                    THEN structure_layer_score(len(get_layer_data(d, LayerType[i]).nodes),
                                               len(get_layer_data(d, LayerType[i]).edges))
                    ELSE 0
        total_score == SumSeq([ i \in DOMAIN LayerType |-> score(i) ])
    IN  total_score \div Max(1, layer_count)

_evaluate_layer_consistency(d) ==
    LET function_nodes == get_layer_data(d, "function").nodes
        logic_nodes == get_layer_data(d, "logic").nodes
        mapped_f == { f \in function_nodes :
                        get_cross_layer_mappings(d, "function", "logic", f) # << >> }
        mapped_l == { g \in logic_nodes :
                        get_cross_layer_mappings(d, "logic", "code", g) # << >> }
        mapping_completeness == Cardinality(mapped_f) + Cardinality(mapped_l)
        total_mappings == Cardinality(function_nodes) + Cardinality(logic_nodes)
    IN  (mapping_completeness * Scale) \div Max(1, total_mappings)

_evaluate_quality_metrics(d) ==
    LET status == DictGet(d.state, "validation_status", "None")
        first == IF status = "passed" THEN Scale
                 ELSE IF status = "partial" THEN (6 * Scale) \div 10
                 ELSE (2 * Scale) \div 10
        total_nodes == DictGet(d.state, "total_nodes", 0)
        quality_indicators ==
            IF total_nodes > 0
            THEN << first, Min(Scale, (total_nodes * Scale) \div 10) >>
            ELSE << first >>
    IN  SumSeq(quality_indicators) \div Max(1, Len(quality_indicators))

\* history[-3:]
LastThree(h) == SubSeq(h, Max(1, Len(h) - 2), Len(h))

\* lines 244-248 without the max(0.0, ...)
stability_of_unclamped(recent_scores) ==
    LET mean == SumSeq(recent_scores) \div Len(recent_scores)
        squares == [ i \in DOMAIN recent_scores |->
                        (recent_scores[i] - mean) * (recent_scores[i] - mean) ]
        variance == SumSeq(squares) \div Len(recent_scores)
    IN  Scale - (variance * 10) \div Scale

\* lines 244-248: max(0, 1 - 10 * population variance of the recent scores)
stability_of(recent_scores) ==
    LET mean == SumSeq(recent_scores) \div Len(recent_scores)
        squares == [ i \in DOMAIN recent_scores |->
                        (recent_scores[i] - mean) * (recent_scores[i] - mean) ]
        variance == SumSeq(squares) \div Len(recent_scores)
    IN  Max(0, Scale - (variance * 10) \div Scale)

\* the test of line 240 with the wrong length
enough_history_off_by_one(h) == Len(h) >= 2

\* not (len(self.history) < 3)
enough_history(h) == Len(h) >= 3

_evaluate_stability(h) ==
    IF ~enough_history(h)
    THEN Scale \div 2
    ELSE stability_of([ i \in DOMAIN LastThree(h) |->
                          LastThree(h)[i].convergence_score ])

SubScores(d, h) ==
    [ structure |-> _evaluate_structure_completeness(d),
      consistency |-> _evaluate_layer_consistency(d),
      quality |-> _evaluate_quality_metrics(d),
      stability |-> _evaluate_stability(h) ]

\* weights = [0.3, 0.3, 0.25, 0.15]
WeightedSum(sc) ==
    (sc.structure * 300 + sc.consistency * 300 + sc.quality * 250 + sc.stability * 150)
        \div Scale

evaluate_convergence(d, h) == Min(Scale, Max(0, WeightedSum(SubScores(d, h))))

\* add_metrics keeping the oldest entries instead of the newest
add_metrics_keep_oldest(h, m) ==
    LET appended == Append(h, m)
    IN  IF Len(appended) > MAX_HISTORY
        THEN SubSeq(appended, 1, MAX_HISTORY)
        ELSE appended

\* ConvergenceEvaluator.add_metrics: append, then history[-50:]
add_metrics(h, m) ==
    LET appended == Append(h, m)
    IN  IF Len(appended) > MAX_HISTORY
        THEN SubSeq(appended, Len(appended) - MAX_HISTORY + 1, Len(appended))
        ELSE appended

(***************************************************************************)
(* LayerOptimizer.                                                         *)
(***************************************************************************)
\* every layer has three templates
_get_initial_node_templates(layer_type) == << 1, 2, 3 >>

\* node ids "<layer>_<i+1>" for i, template in enumerate(node_templates)
RECURSIVE _create_initial_nodes_from(_, _, _, _)
_create_initial_nodes_from(d, layer_type, templates, i) ==
    IF i > Len(templates) THEN d
    ELSE _create_initial_nodes_from(add_node(d, layer_type, i), layer_type, templates, i + 1)

\* _create_initial_nodes writing the seed nodes into the function layer
_create_initial_nodes_in_function_layer(d, layer_type) ==
    _create_initial_nodes_from(d, "function", _get_initial_node_templates(layer_type), 1)

_create_initial_nodes(d, layer_type) ==
    _create_initial_nodes_from(d, layer_type, _get_initial_node_templates(layer_type), 1)

\* _optimize_structure that seeds a layer only once the function layer has nodes
_optimize_structure_reading_function_layer(d, layer_type, iteration_number) ==
    IF /\ iteration_number = 1
       /\ len(get_layer_data(d, layer_type).nodes) = 0
       /\ (layer_type = "function" \/ len(get_layer_data(d, "function").nodes) > 0)
    THEN _create_initial_nodes(d, layer_type)
    ELSE d

\* _optimize_structure seeding whenever iteration_number is 1
_optimize_structure_ungated(d, layer_type, iteration_number) ==
    IF iteration_number = 1
    THEN _create_initial_nodes(d, layer_type)
    ELSE d

_optimize_structure(d, layer_type, iteration_number) ==
    IF iteration_number = 1 /\ len(get_layer_data(d, layer_type).nodes) = 0
    THEN _create_initial_nodes(d, layer_type)
    ELSE d

\* LayerOptimizer.optimize: the data store it leaves (its result dict is
\* collected by the iterator and never read)
optimize(d, s, iteration_number, layer_type) ==
    IF s.current_focus = "structure"
    THEN _optimize_structure(d, layer_type, iteration_number)
    ELSE d

(***************************************************************************)
(* FourLayerIterator: the pure parts.                                      *)
(***************************************************************************)
\* lines 533-536: the optimizers awaited one after the other in the order of
\* self.layer_optimizers, from the i-th on; the loop ends at the optimizer
\* that raises (failing, or "none")
RECURSIVE SequentialOptimizers(_, _, _, _, _)
SequentialOptimizers(d, s, iteration_number, failing, i) ==
    IF i > Len(LayerType) THEN [ dag |-> d, raised |-> FALSE ]
    ELSE IF LayerType[i] = failing THEN [ dag |-> d, raised |-> TRUE ]
    ELSE SequentialOptimizers(optimize(d, s, iteration_number, LayerType[i]),
                              s, iteration_number, failing, i + 1)

IterationMetrics ==
    [ iteration_number |-> 0, convergence_score |-> 0, quality_score |-> 0,
      completion_percentage |-> 0, layer_scores |-> EmptyDict,
      total_nodes |-> 0, total_edges |-> 0, validation_errors |-> << >> ]

Unbound == [unbound |-> TRUE]

\* _calculate_layer_score with the evaluator's multiplier over its own denominator
_calculate_layer_score_times_ten(d, layer_type) ==
    LET n == len(get_layer_data(d, layer_type).nodes)
        e == len(get_layer_data(d, layer_type).edges)
        node_score == Min(Scale, (n * Scale) \div 5)
        edge_score ==
            IF n > 1
            THEN Min(Scale, (e * Scale * 10) \div Max(1, (n * (n - 1)) \div 2))
            ELSE 0
    IN  IF n = 0 THEN 0 ELSE (node_score + edge_score) \div 2

_calculate_layer_score(d, layer_type) ==
    LET n == len(get_layer_data(d, layer_type).nodes)
        e == len(get_layer_data(d, layer_type).edges)
        node_score == Min(Scale, (n * Scale) \div 5)
        edge_score ==
            IF n > 1
            THEN Min(Scale, (e * Scale * 5) \div Max(1, (n * (n - 1)) \div 2))
            ELSE 0
    IN  IF n = 0 THEN 0 ELSE (node_score + edge_score) \div 2

\* lines 521, 539-560 of _execute_single_iteration, after the optimizers ran
IterationMetricsOf(d, h) ==
    LET convergence_score == evaluate_convergence(d, h)
    IN  [ IterationMetrics EXCEPT
            !.convergence_score = convergence_score,
            !.total_nodes = SumSeq([ i \in DOMAIN LayerType |->
                                len(get_layer_data(d, LayerType[i]).nodes) ]),
            !.total_edges = SumSeq([ i \in DOMAIN LayerType |->
                                len(get_layer_data(d, LayerType[i]).edges) ]),
            !.completion_percentage = Min(100 * Scale, convergence_score * 100),
            !.layer_scores = [ l \in LayerValues |-> _calculate_layer_score(d, l) ],
            !.quality_score = _evaluate_quality_metrics(d) ]

\* _apply_strategy_adjustments replacing the parameter map instead of updating it
_apply_strategy_adjustments_replacing_params(s, strategy_adjustments) ==
    LET s1 == IF "focus" \in DOMAIN strategy_adjustments
                 /\ strategy_adjustments["focus"] \in OptimizationFocus
              THEN [ s EXCEPT !.current_focus = strategy_adjustments["focus"] ]
              ELSE s
    IN  IF "optimization_params" \in DOMAIN strategy_adjustments
        THEN [ s1 EXCEPT !.optimization_params = strategy_adjustments["optimization_params"] ]
        ELSE s1

_apply_strategy_adjustments(s, strategy_adjustments) ==
    LET s1 == IF "focus" \in DOMAIN strategy_adjustments
                 /\ strategy_adjustments["focus"] \in OptimizationFocus
              THEN [ s EXCEPT !.current_focus = strategy_adjustments["focus"] ]
              ELSE s
    IN  IF "optimization_params" \in DOMAIN strategy_adjustments
        THEN [ s1 EXCEPT !.optimization_params =
                 DictUpdate(@, strategy_adjustments["optimization_params"]) ]
        ELSE s1

\* _process_user_feedback with a reject that leaves the strategy as it is
_process_user_feedback_without_reset(s, feedback) ==
    LET decision == DictGet(feedback, "decision", "continue")
        adjustments == DictGet(feedback, "adjustments", EmptyDict)
        s1 == IF "strategy" \in DOMAIN adjustments
              THEN _apply_strategy_adjustments(s, adjustments["strategy"])
              ELSE s
    IN  IF decision = "adjust"
        THEN IF "layer_priorities" \in DOMAIN adjustments
             THEN adjust_priorities(s1, adjustments)
             ELSE s1
        ELSE s

\* _process_user_feedback for a feedback that is a dict
_process_user_feedback(s, feedback) ==
    LET decision == DictGet(feedback, "decision", "continue")
        adjustments == DictGet(feedback, "adjustments", EmptyDict)
        s1 == IF "strategy" \in DOMAIN adjustments
              THEN _apply_strategy_adjustments(s, adjustments["strategy"])
              ELSE s
    IN  IF decision = "reject" THEN IterationStrategy
        ELSE IF decision = "adjust"
        THEN IF "layer_priorities" \in DOMAIN adjustments
             THEN adjust_priorities(s1, adjustments)
             ELSE s1
        ELSE s

\* feedback.get(...) on the None that _safe_callback returns raises AttributeError
ProcessFeedbackRaises(feedback) == feedback = None

\* A priority given in the requirements: a value float() converts, one it
\* rejects with ValueError/TypeError (ignored), or one it rejects with another
\* exception (an int too large for a float: OverflowError, not caught).
FloatOf(n) == [float |-> n]
NotAFloat == [raises |-> "ValueError"]
TooLarge == [raises |-> "OverflowError"]

\* the loop of lines 682-687 over the entries, in dict order, from entry i
RECURSIVE SeedPriorities(_, _, _)
SeedPriorities(s, entries, i) ==
    IF i > Len(entries) THEN [strategy |-> s, raised |-> FALSE]
    ELSE LET layer_name == entries[i][1]
             priority == entries[i][2]
         IN  IF layer_name \notin LayerValues THEN SeedPriorities(s, entries, i + 1)
             ELSE IF priority = NotAFloat THEN SeedPriorities(s, entries, i + 1)
             ELSE IF priority = TooLarge THEN [strategy |-> s, raised |-> TRUE]
             ELSE SeedPriorities(
                    [ s EXCEPT !.layer_priorities = DictPut(@, layer_name, priority.float) ],
                    entries, i + 1)

\* _initialize_strategy_from_requirements; layer_priorities is the list of the
\* dict's (layer_name, priority) items
_initialize_strategy_from_requirements(s, requirements) ==
    LET s1 == IF "focus" \in DOMAIN requirements
                 /\ requirements["focus"] \in OptimizationFocus
              THEN [ s EXCEPT !.current_focus = requirements["focus"] ]
              ELSE s
    IN  IF "layer_priorities" \in DOMAIN requirements
        THEN SeedPriorities(s1, requirements["layer_priorities"], 1)
        ELSE [strategy |-> s1, raised |-> FALSE]

\* the loop test of lines 462-463 letting one round too many through
loop_condition_off_by_one(iteration, max_iterations, phase) ==
    iteration <= max_iterations /\ phase # "completed"

\* the loop test of lines 462-463
loop_condition(iteration, max_iterations, phase) ==
    iteration < max_iterations /\ phase # "completed"

\* the feedback test of lines 486-487 without the modulo
is_feedback_point_every_round(iteration, feedback_frequency, registered) ==
    registered

\* lines 486-487, for feedback_frequency # 0
is_feedback_point(iteration, feedback_frequency, registered) ==
    iteration % feedback_frequency = 0 /\ registered

(***************************************************************************)
(* Inputs: configurations, data stores, requirements, callback results.    *)
(***************************************************************************)
IterationConfig(max_iterations, convergence_threshold, feedback_frequency, parallel) ==
    [ max_iterations |-> max_iterations,
      convergence_threshold |-> convergence_threshold,
      feedback_frequency |-> feedback_frequency,
      parallel_optimization |-> parallel ]

DefaultThreshold == (85 * Scale) \div 100
DefaultFeedbackFrequency == 3

Configs ==
    { IterationConfig(m, t, f, p) :
        m \in 0..MaxIterations,
        t \in { DefaultThreshold, (25 * Scale) \div 100 },
        f \in { 0, 1, DefaultFeedbackFrequency },
        p \in BOOLEAN }

Store(nodes, edges, mappings, state) ==
    [ layers |-> [ l \in LayerValues |-> [ nodes |-> nodes[l], edges |-> edges[l] ] ],
      mappings |-> mappings, state |-> state, metadata |-> EmptyDict ]

EmptyStore ==
    Store([ l \in LayerValues |-> {} ], [ l \in LayerValues |-> {} ],
          [ function |-> {}, logic |-> {} ], EmptyDict)

\* five connected, fully mapped nodes per layer, already validated
RichStore ==
    Store([ l \in LayerValues |-> 1..5 ], [ l \in LayerValues |-> 1..2 ],
          [ function |-> 1..5, logic |-> 1..5 ],
          [ validation_status |-> "passed", total_nodes |-> 20 ])

\* only the function layer is populated
PartialStore ==
    Store([ l \in LayerValues |-> IF l = "function" THEN 1..2 ELSE {} ],
          [ l \in LayerValues |-> IF l = "function" THEN { 1 } ELSE {} ],
          [ function |-> { 1 }, logic |-> {} ],
          [ validation_status |-> "partial", total_nodes |-> 2 ])

Stores == { EmptyStore, RichStore, PartialStore }

Requirements ==
    { None,
      [ focus |-> "quality" ],
      [ focus |-> "bogus" ],
      [ layer_priorities |-> << << "function", FloatOf(50) >> >> ],
      [ focus |-> "structure",
        layer_priorities |-> << << "bogus", FloatOf(10) >>, << "logic", NotAFloat >>,
                                << "code", FloatOf(3) >> >> ],
      [ layer_priorities |-> << << "order", FloatOf(12) >>, << "code", TooLarge >> >> ] }

FeedbackContinue == [ decision |-> "continue" ]
FeedbackReject == [ decision |-> "reject" ]
\* {decision: "adjust", adjustments: {layer_priorities: {layer_feedback: {function: 0.5}}}}
FeedbackAdjustNested ==
    [ decision |-> "adjust",
      adjustments |-> [ layer_priorities |-> [ layer_feedback |-> [ function |-> 5 ] ] ] ]
\* the deltas beside layer_priorities, where adjust_priorities(adjustments) looks
FeedbackAdjustFlat ==
    [ decision |-> "adjust",
      adjustments |-> [ layer_priorities |-> EmptyDict,
                        layer_feedback |-> [ function |-> 5, order |-> -30, bogus |-> 7 ] ] ]
FeedbackAdjustFocus ==
    [ decision |-> "adjust",
      adjustments |-> [ strategy |-> [ focus |-> "dependencies",
                                       optimization_params |-> [ depth |-> 2 ] ] ] ]
FeedbackAdjustBadFocus ==
    [ decision |-> "adjust",
      adjustments |-> [ strategy |-> [ focus |-> "bogus",
                                       optimization_params |-> [ width |-> 1 ] ] ] ]

\* a decision the loop does not know
FeedbackPause == [ decision |-> "pause", adjustments |-> [ strategy |-> [ focus |-> "quality" ] ] ]
\* a valid focus, and a parameter that is already set
FeedbackAdjustQuality ==
    [ decision |-> "adjust",
      adjustments |-> [ strategy |-> [ focus |-> "quality",
                                       optimization_params |-> [ depth |-> 3 ] ] ] ]

Feedbacks ==
    { FeedbackContinue, EmptyDict, FeedbackReject, FeedbackAdjustNested,
      FeedbackAdjustFlat, FeedbackAdjustFocus, FeedbackAdjustBadFocus }

\* a strategy under each focus
Strategies ==
    { [ IterationStrategy EXCEPT !.current_focus = f ] : f \in OptimizationFocus }

NoScores == [ structure |-> 0, consistency |-> 0, quality |-> 0, stability |-> 0 ]

(***************************************************************************)
(* FourLayerIterator.__init__ followed by set_feedback_callback /          *)
(* set_progress_callback, and a data store to build.                       *)
(***************************************************************************)
Init ==
    /\ config \in Configs
    /\ feedback_callback \in BOOLEAN
    /\ progress_callback \in BOOLEAN
    /\ store_fails \in BOOLEAN
    /\ dag \in Stores
    /\ dag0 = dag
    /\ strategy = IterationStrategy
    /\ history = << >>
    /\ current_phase = "initializing"
    /\ current_iteration = 0
    /\ iteration_history = << >>
    /\ initial_requirements = None
    /\ pc = "idle"
    /\ pending = {}
    /\ metrics = Unbound
    /\ user_feedback = Unbound
    /\ outcome = "none"
    /\ runs = 0
    /\ sub_scores = NoScores
    /\ strategy_before = IterationStrategy
    /\ decisions = "none"
    /\ calls = 0
    /\ failed_task = "none"
    /\ callback_error = FALSE

\* the except clause of lines 514-516
RaiseToCaller ==
    /\ current_phase' = "error"
    /\ outcome' = "raised"
    /\ pc' = "done"

\* lines 452-453: the call of iterate_build(dag, initial_requirements) on the
\* iterator constructed for this build
Call ==
    /\ pc = "idle"
    /\ \E r \in Requirements : initial_requirements' = r
    /\ runs' = runs + 1
    /\ current_phase' = "initializing"
    /\ current_iteration' = 0
    /\ metrics' = Unbound
    /\ user_feedback' = Unbound
    /\ outcome' = "running"
    /\ decisions' = "none"
    /\ pc' = "init"
    /\ UNCHANGED << config, feedback_callback, progress_callback, strategy,
                    history, iteration_history, dag, pending, store_fails,
                    sub_scores, strategy_before, dag0, calls, failed_task,
                    callback_error >>

\* lines 456-460: seed the strategy (outside the try), then phase ITERATING
InitializeStrategy ==
    /\ pc = "init"
    /\ LET seeded == IF initial_requirements \in { None, EmptyDict }
                     THEN [ strategy |-> strategy, raised |-> FALSE ]
                     ELSE _initialize_strategy_from_requirements(strategy, initial_requirements)
       IN  /\ strategy' = seeded.strategy
           /\ IF seeded.raised
              THEN /\ outcome' = "raised"
                   /\ pc' = "done"
                   /\ UNCHANGED current_phase
              ELSE /\ current_phase' = "iterating"
                   /\ pc' = "loop"
                   /\ UNCHANGED outcome
    /\ UNCHANGED << config, feedback_callback, progress_callback, history,
                    current_iteration, iteration_history, dag,
                    initial_requirements, pending, metrics, user_feedback,
                    store_fails, runs, sub_scores, strategy_before, decisions,
                    dag0, calls, failed_task, callback_error >>

\* lines 462-465: the loop test holds, the round starts
StartRound ==
    /\ pc = "loop"
    /\ loop_condition(current_iteration, config.max_iterations, current_phase)
    /\ current_iteration' = current_iteration + 1
    /\ pending' = LayerValues
    /\ user_feedback' = Unbound
    /\ failed_task' = "none"
    /\ callback_error' = FALSE
    /\ pc' = "optimize"
    /\ UNCHANGED << config, feedback_callback, progress_callback, strategy,
                    history, current_phase, iteration_history, dag,
                    initial_requirements, metrics, outcome, store_fails, runs,
                    sub_scores, strategy_before, decisions, dag0, calls >>

\* lines 462-463: the loop test fails
ExitLoop ==
    /\ pc = "loop"
    /\ ~loop_condition(current_iteration, config.max_iterations, current_phase)
    /\ pc' = "stamp"
    /\ UNCHANGED << config, feedback_callback, progress_callback, strategy,
                    history, current_phase, current_iteration,
                    iteration_history, dag, initial_requirements, pending,
                    metrics, user_feedback, outcome, store_fails, runs,
                    sub_scores, strategy_before, decisions, dag0, calls,
                    failed_task, callback_error >>

\* the first layer of LayerType that is still pending
NextInOrder(layers) ==
    LayerType[CHOOSE i \in DOMAIN LayerType :
                /\ LayerType[i] \in layers
                /\ \A j \in 1..(i - 1) : LayerType[j] \notin layers]

\* lines 523-536: one optimizer task runs to its end (an optimizer has no
\* suspension point); gathered tasks in any order, sequential ones in the order
\* of self.layer_optimizers.  asyncio.gather hands the first exception to
\* _execute_single_iteration only after the tasks already scheduled have run.
Optimize(layer_type) ==
    /\ pc = "optimize"
    /\ layer_type \in pending
    /\ config.parallel_optimization \/ layer_type = NextInOrder(pending)
    /\ dag' = optimize(dag, strategy, current_iteration, layer_type)
    /\ pending' = pending \ { layer_type }
    /\ IF pending' # {}
       THEN /\ pc' = "optimize"
            /\ UNCHANGED << current_phase, outcome >>
       ELSE IF failed_task = "none"
       THEN /\ pc' = "evaluate"
            /\ UNCHANGED << current_phase, outcome >>
       ELSE RaiseToCaller
    /\ UNCHANGED << config, feedback_callback, progress_callback, strategy,
                    history, current_iteration, iteration_history,
                    initial_requirements, metrics, user_feedback, store_fails,
                    runs, sub_scores, strategy_before, decisions, dag0, calls,
                    failed_task, callback_error >>

\* lines 523-536 when the data store raises inside an optimizer (line 301):
\* the sequential loop stops there; a gathered task fails alone and the
\* exception reaches the iterator once the other tasks have run
OptimizeRaises(layer_type) ==
    /\ store_fails
    /\ pc = "optimize"
    /\ layer_type \in pending
    /\ config.parallel_optimization \/ layer_type = NextInOrder(pending)
    /\ failed_task' = IF failed_task = "none" THEN layer_type ELSE failed_task
    /\ IF config.parallel_optimization
       THEN /\ pending' = pending \ { layer_type }
            /\ IF pending' = {}
               THEN RaiseToCaller
               ELSE /\ pc' = "optimize"
                    /\ UNCHANGED << current_phase, outcome >>
       ELSE /\ RaiseToCaller
            /\ UNCHANGED pending
    /\ UNCHANGED << config, feedback_callback, progress_callback, strategy,
                    history, current_iteration, iteration_history, dag,
                    initial_requirements, metrics, user_feedback, store_fails,
                    runs, sub_scores, strategy_before, decisions, dag0, calls,
                    callback_error >>

\* lines 539-560: the metrics of the round
Evaluate ==
    /\ pc = "evaluate"
    /\ metrics' = IterationMetricsOf(dag, history)
    /\ sub_scores' = SubScores(dag, history)
    /\ pc' = "record"
    /\ UNCHANGED << config, feedback_callback, progress_callback, strategy,
                    history, current_phase, current_iteration,
                    iteration_history, dag, initial_requirements, pending,
                    user_feedback, outcome, store_fails, runs, strategy_before,
                    decisions, dag0, calls, failed_task, callback_error >>

\* the round recorded in the iterator's own history only
Record_without_add_metrics ==
    /\ pc = "record"
    /\ LET numbered == [ metrics EXCEPT !.iteration_number = current_iteration ]
       IN  /\ metrics' = numbered
           /\ iteration_history' = Append(iteration_history, numbered)
           /\ history' = history
    /\ pc' = IF progress_callback THEN "progress" ELSE "feedback_check"
    /\ UNCHANGED << config, feedback_callback, progress_callback, strategy,
                    current_phase, current_iteration, dag,
                    initial_requirements, pending, user_feedback, outcome,
                    store_fails, runs, sub_scores, strategy_before, decisions,
                    dag0, calls, failed_task, callback_error >>

\* the round recorded under the number of the round before it
Record_numbering_from_zero ==
    /\ pc = "record"
    /\ LET numbered == [ metrics EXCEPT !.iteration_number = current_iteration - 1 ]
       IN  /\ metrics' = numbered
           /\ iteration_history' = Append(iteration_history, numbered)
           /\ history' = add_metrics(history, numbered)
    /\ pc' = IF progress_callback THEN "progress" ELSE "feedback_check"
    /\ UNCHANGED << config, feedback_callback, progress_callback, strategy,
                    current_phase, current_iteration, dag,
                    initial_requirements, pending, user_feedback, outcome,
                    store_fails, runs, sub_scores, strategy_before, decisions,
                    dag0, calls, failed_task, callback_error >>

\* lines 472-475
Record ==
    /\ pc = "record"
    /\ LET numbered == [ metrics EXCEPT !.iteration_number = current_iteration ]
       IN  /\ metrics' = numbered
           /\ iteration_history' = Append(iteration_history, numbered)
           /\ history' = add_metrics(history, numbered)
    /\ pc' = IF progress_callback THEN "progress" ELSE "feedback_check"
    /\ UNCHANGED << config, feedback_callback, progress_callback, strategy,
                    current_phase, current_iteration, dag,
                    initial_requirements, pending, user_feedback, outcome,
                    store_fails, runs, sub_scores, strategy_before, decisions,
                    dag0, calls, failed_task, callback_error >>

\* lines 479-483: what the progress callback is called with
progress_data ==
    [ iteration |-> current_iteration, metrics |-> metrics, phase |-> current_phase ]

\* get_current_status(), as a callback or any other observer reads it
get_current_status ==
    [ phase |-> current_phase,
      iteration |-> current_iteration,
      strategy |-> [ focus |-> strategy.current_focus,
                     layer_priorities |-> strategy.layer_priorities ],
      history_count |-> Len(iteration_history),
      last_metrics |-> IF iteration_history # << >>
                       THEN iteration_history[Len(iteration_history)]
                       ELSE None ]

\* lines 478-483: the progress callback returns; its value is dropped
ProgressReturns ==
    /\ pc = "progress"
    /\ pc' = "feedback_check"
    /\ UNCHANGED << config, feedback_callback, progress_callback, strategy,
                    history, current_phase, current_iteration,
                    iteration_history, dag, initial_requirements, pending,
                    metrics, user_feedback, outcome, store_fails, runs,
                    sub_scores, strategy_before, decisions, dag0, calls,
                    failed_task, callback_error >>

\* a progress callback whose exception is not caught by _safe_callback
ProgressRaises_propagating ==
    /\ pc = "progress"
    /\ callback_error' = TRUE
    /\ RaiseToCaller
    /\ UNCHANGED << config, feedback_callback, progress_callback, strategy,
                    history, current_iteration, iteration_history, dag,
                    initial_requirements, pending, metrics, user_feedback,
                    store_fails, runs, sub_scores, strategy_before, decisions,
                    dag0, calls, failed_task >>

\* lines 478-483 with 696-699: the progress callback raises, _safe_callback
\* catches it and returns None, which is dropped
ProgressRaises ==
    /\ pc = "progress"
    /\ callback_error' = TRUE
    /\ pc' = "feedback_check"
    /\ UNCHANGED << config, feedback_callback, progress_callback, strategy,
                    history, current_phase, current_iteration,
                    iteration_history, dag, initial_requirements, pending,
                    metrics, user_feedback, outcome, store_fails, runs,
                    sub_scores, strategy_before, decisions, dag0, calls,
                    failed_task >>

\* the feedback test asking first whether a callback is registered
FeedbackCheck_callback_tested_first ==
    /\ pc = "feedback_check"
    /\ IF ~feedback_callback
       THEN /\ pc' = "convergence_check"
            /\ UNCHANGED << current_phase, outcome >>
       ELSE IF config.feedback_frequency = 0
       THEN RaiseToCaller
       ELSE IF is_feedback_point(current_iteration, config.feedback_frequency,
                                 feedback_callback)
       THEN /\ current_phase' = "waiting_feedback"
            /\ pc' = "feedback_request"
            /\ UNCHANGED outcome
       ELSE /\ pc' = "convergence_check"
            /\ UNCHANGED << current_phase, outcome >>
    /\ UNCHANGED << config, feedback_callback, progress_callback, strategy,
                    history, current_iteration, iteration_history, dag,
                    initial_requirements, pending, metrics, user_feedback,
                    store_fails, runs, sub_scores, strategy_before, decisions,
                    dag0, calls, failed_task, callback_error >>

\* lines 486-489: the modulo is evaluated first (ZeroDivisionError when the
\* frequency is 0), then whether a callback is registered
FeedbackCheck ==
    /\ pc = "feedback_check"
    /\ IF config.feedback_frequency = 0
       THEN RaiseToCaller
       ELSE IF is_feedback_point(current_iteration, config.feedback_frequency,
                                 feedback_callback)
       THEN /\ current_phase' = "waiting_feedback"
            /\ pc' = "feedback_request"
            /\ UNCHANGED outcome
       ELSE /\ pc' = "convergence_check"
            /\ UNCHANGED << current_phase, outcome >>
    /\ UNCHANGED << config, feedback_callback, progress_callback, strategy,
                    history, current_iteration, iteration_history, dag,
                    initial_requirements, pending, metrics, user_feedback,
                    store_fails, runs, sub_scores, strategy_before, decisions,
                    dag0, calls, failed_task, callback_error >>

Decided(so_far, feedback) ==
    IF feedback = FeedbackReject /\ so_far \in { "none", "reject" }
    THEN "reject" ELSE "other"

\* lines 491-494: the payload is built, the callback returns a dict
FeedbackReturns ==
    /\ pc = "feedback_request"
    /\ \E feedback \in Feedbacks :
         /\ user_feedback' = feedback
         /\ decisions' = Decided(decisions, feedback)
    /\ strategy_before' = strategy
    /\ current_phase' = "processing_feedback"
    /\ pc' = "feedback_process"
    /\ UNCHANGED << config, feedback_callback, progress_callback, strategy,
                    history, current_iteration, iteration_history, dag,
                    initial_requirements, pending, metrics, outcome,
                    store_fails, runs, sub_scores, dag0, calls, failed_task,
                    callback_error >>

\* lines 491-494 with 696-699: the callback raises (or returns None);
\* _safe_callback hands None to the loop
FeedbackRaises ==
    /\ pc = "feedback_request"
    /\ callback_error' = TRUE
    /\ user_feedback' = None
    /\ decisions' = "other"
    /\ strategy_before' = strategy
    /\ current_phase' = "processing_feedback"
    /\ pc' = "feedback_process"
    /\ UNCHANGED << config, feedback_callback, progress_callback, strategy,
                    history, current_iteration, iteration_history, dag,
                    initial_requirements, pending, metrics, outcome,
                    store_fails, runs, sub_scores, dag0, calls, failed_task >>

\* lines 495-497
\* feedback processing after which a reject goes on to the next round without
\* the convergence test
ProcessFeedback_reject_skips_convergence ==
    /\ pc = "feedback_process"
    /\ IF ProcessFeedbackRaises(user_feedback)
       THEN /\ RaiseToCaller
            /\ UNCHANGED strategy
       ELSE /\ strategy' = _process_user_feedback(strategy, user_feedback)
            /\ current_phase' = "iterating"
            /\ pc' = IF DictGet(user_feedback, "decision", "continue") = "reject"
                     THEN "loop" ELSE "convergence_check"
            /\ UNCHANGED outcome
    /\ UNCHANGED << config, feedback_callback, progress_callback, history,
                    current_iteration, iteration_history, dag,
                    initial_requirements, pending, metrics, user_feedback,
                    store_fails, runs, sub_scores, strategy_before, decisions,
                    dag0, calls, failed_task, callback_error >>

ProcessFeedback ==
    /\ pc = "feedback_process"
    /\ IF ProcessFeedbackRaises(user_feedback)
       THEN /\ RaiseToCaller
            /\ UNCHANGED strategy
       ELSE /\ strategy' = _process_user_feedback(strategy, user_feedback)
            /\ current_phase' = "iterating"
            /\ pc' = "convergence_check"
            /\ UNCHANGED outcome
    /\ UNCHANGED << config, feedback_callback, progress_callback, history,
                    current_iteration, iteration_history, dag,
                    initial_requirements, pending, metrics, user_feedback,
                    store_fails, runs, sub_scores, strategy_before, decisions,
                    dag0, calls, failed_task, callback_error >>

\* the convergence test entering COMPLETED without passing through FINALIZING
ConvergenceCheck_skipping_finalizing ==
    /\ pc = "convergence_check"
    /\ IF metrics.convergence_score >= config.convergence_threshold
       THEN /\ current_phase' = "completed"
            /\ pc' = "stamp"
       ELSE /\ pc' = "loop"
            /\ UNCHANGED current_phase
    /\ UNCHANGED << config, feedback_callback, progress_callback, strategy,
                    history, current_iteration, iteration_history, dag,
                    initial_requirements, pending, metrics, user_feedback,
                    outcome, store_fails, runs, sub_scores, strategy_before,
                    decisions, dag0, calls, failed_task, callback_error >>

\* lines 500-501
ConvergenceCheck ==
    /\ pc = "convergence_check"
    /\ IF metrics.convergence_score >= config.convergence_threshold
       THEN /\ current_phase' = "finalizing"
            /\ pc' = "finalize"
       ELSE /\ pc' = "loop"
            /\ UNCHANGED current_phase
    /\ UNCHANGED << config, feedback_callback, progress_callback, strategy,
                    history, current_iteration, iteration_history, dag,
                    initial_requirements, pending, metrics, user_feedback,
                    outcome, store_fails, runs, sub_scores, strategy_before,
                    decisions, dag0, calls, failed_task, callback_error >>

\* _finalize_dag that records the time but not the status
_finalize_dag_without_status(d) ==
    [ d EXCEPT !.state = DictPut(@, "last_modified", "now") ]

_finalize_dag(d) ==
    [ d EXCEPT !.state = DictPut(DictPut(@, "validation_status", "passed"),
                                 "last_modified", "now") ]

\* lines 502-504: stamp, phase COMPLETED, break
Finalize ==
    /\ pc = "finalize"
    /\ dag' = _finalize_dag(dag)
    /\ current_phase' = "completed"
    /\ pc' = "stamp"
    /\ UNCHANGED << config, feedback_callback, progress_callback, strategy,
                    history, current_iteration, iteration_history,
                    initial_requirements, pending, metrics, user_feedback,
                    outcome, store_fails, runs, sub_scores, strategy_before,
                    decisions, dag0, calls, failed_task, callback_error >>

\* the final stamping leaving validation_status as it finds it
StampAndReturn_keeping_status ==
    /\ pc = "stamp"
    /\ IF metrics = Unbound
       THEN /\ dag' = [ dag EXCEPT
                          !.metadata = DictPut(@, "stage", "implementation"),
                          !.state = DictPut(@, "current_iteration", current_iteration) ]
            /\ RaiseToCaller
       ELSE /\ dag' = [ dag EXCEPT
                          !.metadata = DictPut(@, "stage", "implementation"),
                          !.state = DictPut(DictPut(@,
                                      "current_iteration", current_iteration),
                                      "convergence_score", metrics.convergence_score) ]
            /\ outcome' = "returned"
            /\ pc' = "done"
            /\ UNCHANGED current_phase
    /\ UNCHANGED << config, feedback_callback, progress_callback, strategy,
                    history, current_iteration, iteration_history,
                    initial_requirements, pending, metrics, user_feedback,
                    store_fails, runs, sub_scores, strategy_before, decisions,
                    dag0, calls, failed_task, callback_error >>

\* lines 507-512; reading metrics when no round ran raises UnboundLocalError
\* at line 509, after lines 507-508 took effect
StampAndReturn ==
    /\ pc = "stamp"
    /\ IF metrics = Unbound
       THEN /\ dag' = [ dag EXCEPT
                          !.metadata = DictPut(@, "stage", "implementation"),
                          !.state = DictPut(@, "current_iteration", current_iteration) ]
            /\ RaiseToCaller
       ELSE /\ dag' = [ dag EXCEPT
                          !.metadata = DictPut(@, "stage", "implementation"),
                          !.state = DictPut(DictPut(DictPut(@,
                                      "current_iteration", current_iteration),
                                      "convergence_score", metrics.convergence_score),
                                      "validation_status", "completed") ]
            /\ outcome' = "returned"
            /\ pc' = "done"
            /\ UNCHANGED current_phase
    /\ UNCHANGED << config, feedback_callback, progress_callback, strategy,
                    history, current_iteration, iteration_history,
                    initial_requirements, pending, metrics, user_feedback,
                    store_fails, runs, sub_scores, strategy_before, decisions,
                    dag0, calls, failed_task, callback_error >>

\* the data store raises while the evaluator or the feedback payload
\* (to_reactflow_format / to_mermaid_format) uses it: lines 514-516
StoreRaises ==
    /\ store_fails
    /\ pc \in { "evaluate", "feedback_request" }
    /\ RaiseToCaller
    /\ UNCHANGED << config, feedback_callback, progress_callback, strategy,
                    history, current_iteration, iteration_history, dag,
                    initial_requirements, pending, metrics, user_feedback,
                    store_fails, runs, sub_scores, strategy_before, decisions,
                    dag0, calls, failed_task, callback_error >>

Next ==
    \/ Call
    \/ InitializeStrategy
    \/ StartRound
    \/ ExitLoop
    \/ \E layer_type \in LayerValues : Optimize(layer_type)
    \/ \E layer_type \in LayerValues : OptimizeRaises(layer_type)
    \/ Evaluate
    \/ Record
    \/ ProgressReturns
    \/ ProgressRaises
    \/ FeedbackCheck
    \/ FeedbackReturns
    \/ FeedbackRaises
    \/ ProcessFeedback
    \/ ConvergenceCheck
    \/ Finalize
    \/ StampAndReturn
    \/ StoreRaises

Spec == Init /\ [][Next]_vars

\* every await of iterate_build completes: callbacks and the store return or raise
FairSpec == Spec /\ WF_vars(Next)

(***************************************************************************)
(* A long run: max_iterations above the evaluator's history limit, feedback *)
(* asked for once, in round MAX_HISTORY.                                    *)
(***************************************************************************)
LongRunInit ==
    /\ config \in { IterationConfig(MaxLongRounds, DefaultThreshold, MAX_HISTORY, parallel) :
                      parallel \in BOOLEAN }
    /\ feedback_callback \in BOOLEAN
    /\ progress_callback \in BOOLEAN
    /\ store_fails \in BOOLEAN
    /\ dag \in Stores
    /\ dag0 = dag
    /\ strategy = IterationStrategy
    /\ history = << >>
    /\ current_phase = "initializing"
    /\ current_iteration = 0
    /\ iteration_history = << >>
    /\ initial_requirements = None
    /\ pc = "idle"
    /\ pending = {}
    /\ metrics = Unbound
    /\ user_feedback = Unbound
    /\ outcome = "none"
    /\ runs = 0
    /\ sub_scores = NoScores
    /\ strategy_before = IterationStrategy
    /\ decisions = "none"
    /\ calls = 0
    /\ failed_task = "none"
    /\ callback_error = FALSE

LongRunSpec == LongRunInit /\ [][Next]_vars

(***************************************************************************)
(* An iterator that is used again: iterate_build is called on the same     *)
(* instance, with the same data store, after an earlier call has returned  *)
(* or raised.  Lines 452-453 reset the phase and the round counter; the    *)
(* strategy and both histories are kept.                                   *)
(***************************************************************************)
ReuseInit ==
    /\ Init
    /\ config.max_iterations <= MaxReuseIterations

\* a repeated call that also starts from empty histories
CallAgain_with_fresh_histories ==
    /\ pc = "done"
    /\ runs < MaxCalls
    /\ \E r \in Requirements : initial_requirements' = r
    /\ runs' = runs + 1
    /\ current_phase' = "initializing"
    /\ current_iteration' = 0
    /\ metrics' = Unbound
    /\ user_feedback' = Unbound
    /\ outcome' = "running"
    /\ decisions' = "none"
    /\ pc' = "init"
    /\ history' = << >>
    /\ iteration_history' = << >>
    /\ UNCHANGED << config, feedback_callback, progress_callback, strategy,
                    dag, pending, store_fails,
                    sub_scores, strategy_before, dag0, calls, failed_task,
                    callback_error >>

CallAgain ==
    /\ pc = "done"
    /\ runs < MaxCalls
    /\ \E r \in Requirements : initial_requirements' = r
    /\ runs' = runs + 1
    /\ current_phase' = "initializing"
    /\ current_iteration' = 0
    /\ metrics' = Unbound
    /\ user_feedback' = Unbound
    /\ outcome' = "running"
    /\ decisions' = "none"
    /\ pc' = "init"
    /\ UNCHANGED << config, feedback_callback, progress_callback, strategy,
                    history, iteration_history, dag, pending, store_fails,
                    sub_scores, strategy_before, dag0, calls, failed_task,
                    callback_error >>

ReuseNext == Next \/ CallAgain

ReuseSpec == ReuseInit /\ [][ReuseNext]_vars

\* an iterator with max_iterations 3 and the default feedback frequency that
\* is called twice
SecondRunInit ==
    /\ Init
    /\ config.max_iterations = MaxSecondRunIterations
    /\ config.feedback_frequency = DefaultFeedbackFrequency

\* the second call on the iterator
SecondCall ==
    /\ runs = 1
    /\ CallAgain

SecondRunNext == Next \/ SecondCall

SecondRunSpec == SecondRunInit /\ [][SecondRunNext]_vars

(***************************************************************************)
(* One round: _execute_single_iteration entered with any data store, any   *)
(* strategy and iteration number 1 or 2, in either mode.                   *)
(***************************************************************************)
RoundInit ==
    /\ config \in { IterationConfig(MaxIterations, DefaultThreshold,
                                     DefaultFeedbackFrequency, p) : p \in BOOLEAN }
    /\ feedback_callback = FALSE
    /\ progress_callback = FALSE
    /\ store_fails \in BOOLEAN
    /\ strategy \in Strategies
    /\ history = << >>
    /\ current_phase = "iterating"
    /\ current_iteration \in 1..2
    /\ iteration_history = << >>
    /\ dag \in Stores
    /\ dag0 = dag
    /\ initial_requirements = None
    /\ pc = "optimize"
    /\ pending = LayerValues
    /\ metrics = Unbound
    /\ user_feedback = Unbound
    /\ outcome = "running"
    /\ runs = 1
    /\ sub_scores = NoScores
    /\ strategy_before = IterationStrategy
    /\ decisions = "none"
    /\ calls = 0
    /\ failed_task = "none"
    /\ callback_error = FALSE

RoundNext ==
    \/ \E layer_type \in LayerValues : Optimize(layer_type)
    \/ \E layer_type \in LayerValues : OptimizeRaises(layer_type)
    \/ Evaluate

RoundSpec == RoundInit /\ [][RoundNext]_vars

(***************************************************************************)
(* Harnesses for the pure operations, called directly on a fresh object.   *)
(***************************************************************************)
Harness(position) ==
    /\ config = IterationConfig(20, DefaultThreshold, DefaultFeedbackFrequency, TRUE)
    /\ feedback_callback = FALSE
    /\ progress_callback = FALSE
    /\ store_fails = FALSE
    /\ current_phase = "initializing"
    /\ current_iteration = 0
    /\ iteration_history = << >>
    /\ initial_requirements = None
    /\ pc = position
    /\ pending = {}
    /\ metrics = Unbound
    /\ user_feedback = Unbound
    /\ outcome = "none"
    /\ runs = 0
    /\ sub_scores = NoScores
    /\ strategy_before = IterationStrategy
    /\ decisions = "none"
    /\ calls = 0
    /\ failed_task = "none"
    /\ callback_error = FALSE

\* _process_user_feedback called directly with one decision after another;
\* strategy_before and user_feedback hold the strategy and the argument of the
\* latest call
AnyFeedbacks == Feedbacks \cup { FeedbackPause, FeedbackAdjustQuality }

FeedbackInit ==
    /\ Harness("feedback")
    /\ strategy = IterationStrategy
    /\ history = << >>
    /\ dag = EmptyStore
    /\ dag0 = EmptyStore

ProcessUserFeedbackCall ==
    /\ pc = "feedback"
    /\ calls < MaxFeedbacks
    /\ \E feedback \in AnyFeedbacks :
         /\ user_feedback' = feedback
         /\ strategy' = _process_user_feedback(strategy, feedback)
    /\ strategy_before' = strategy
    /\ calls' = calls + 1
    /\ UNCHANGED << config, feedback_callback, progress_callback, history,
                    current_phase, current_iteration, iteration_history, dag,
                    initial_requirements, pc, pending, metrics, outcome,
                    store_fails, runs, sub_scores, decisions, dag0, failed_task,
                    callback_error >>

FeedbackSpec == FeedbackInit /\ [][ProcessUserFeedbackCall]_vars

\* IterationStrategy() followed by any number of adjust_priorities calls
Deltas == { -100, -5, -1, 1, 5, 100 }

PriorityFeedbacks ==
    { EmptyDict, [ other |-> [ function |-> 5 ] ],
      [ layer_feedback |-> [ function |-> 100, order |-> -100, bogus |-> 100 ] ] }
    \cup { [ layer_feedback |-> (name :> delta) ] :
             name \in LayerValues \cup { "bogus" }, delta \in Deltas }

StrategyInit ==
    /\ Harness("strategy")
    /\ strategy = IterationStrategy
    /\ history = << >>
    /\ dag = EmptyStore
    /\ dag0 = EmptyStore

AdjustPrioritiesCall ==
    /\ pc = "strategy"
    /\ \E feedback \in PriorityFeedbacks :
         strategy' = adjust_priorities(strategy, feedback)
    /\ UNCHANGED << config, feedback_callback, progress_callback, history,
                    current_phase, current_iteration, iteration_history, dag,
                    initial_requirements, pc, pending, metrics, user_feedback,
                    outcome, store_fails, runs, sub_scores, strategy_before,
                    decisions, dag0, calls, failed_task, callback_error >>

StrategySpec == StrategyInit /\ [][AdjustPrioritiesCall]_vars

\* ConvergenceEvaluator() followed by add_metrics calls; the n-th call appends
\* metrics with iteration_number n
HistoryInit ==
    /\ Harness("history")
    /\ strategy = IterationStrategy
    /\ history = << >>
    /\ dag = EmptyStore
    /\ dag0 = EmptyStore

AddMetricsCall ==
    /\ pc = "history"
    /\ calls < MaxAppends
    /\ history' = add_metrics(history, [ IterationMetrics EXCEPT !.iteration_number = calls + 1 ])
    /\ calls' = calls + 1
    /\ UNCHANGED << config, feedback_callback, progress_callback, strategy,
                    current_phase, current_iteration, iteration_history, dag,
                    initial_requirements, pc, pending, metrics, user_feedback,
                    outcome, store_fails, runs, sub_scores, strategy_before,
                    decisions, dag0, failed_task, callback_error >>

HistorySpec == HistoryInit /\ [][AddMetricsCall]_vars

\* evaluate_convergence on an arbitrary data store with an arbitrary history
AnyStores ==
    { Store([ function |-> 1..nf, logic |-> 1..nl, code |-> 1..nc, order |-> 1..no ],
            [ l \in LayerValues |-> 1..e ],
            [ function |-> mf, logic |-> ml ],
            st) :
        nf \in { 0, 1, 6 }, nl \in { 0, 3 }, nc \in { 0, 6 }, no \in { 0, 2 },
        e \in { 0, 1, 40 },
        mf \in { {}, { 1 }, 1..6 }, ml \in { {}, { 2, 9 } },
        st \in { EmptyDict,
                 [ validation_status |-> "passed" ],
                 [ validation_status |-> "partial", total_nodes |-> 4 ],
                 [ validation_status |-> "completed", total_nodes |-> 25 ],
                 [ total_nodes |-> -3 ],
                 [ validation_status |-> "passed", total_nodes |-> 10 ] } }

AnyScores == { 0, (4 * Scale) \div 10, 5 * Scale }

AnyHistories ==
    UNION { [ 1..n -> { [ IterationMetrics EXCEPT !.convergence_score = sc ] :
                          sc \in AnyScores } ] : n \in 0..3 }

EvaluatorInit ==
    /\ Harness("evaluator")
    /\ strategy = IterationStrategy
    /\ history \in AnyHistories
    /\ dag \in AnyStores
    /\ dag0 = dag

EvaluateConvergenceCall ==
    /\ pc = "evaluator"
    /\ calls = 0
    /\ sub_scores' = SubScores(dag, history)
    /\ metrics' = [ IterationMetrics EXCEPT
                      !.convergence_score = evaluate_convergence(dag, history) ]
    /\ calls' = 1
    /\ UNCHANGED << config, feedback_callback, progress_callback, strategy,
                    history, current_phase, current_iteration,
                    iteration_history, dag, initial_requirements, pc, pending,
                    user_feedback, outcome, store_fails, runs, strategy_before,
                    decisions, dag0, failed_task, callback_error >>

EvaluatorSpec == EvaluatorInit /\ [][EvaluateConvergenceCall]_vars

\* a store with n nodes and e edges in one layer and nothing elsewhere
OneLayerStore(layer, n, e) ==
    Store([ l \in LayerValues |-> IF l = layer THEN 1..n ELSE {} ],
          [ l \in LayerValues |-> IF l = layer THEN 1..e ELSE {} ],
          [ function |-> {}, logic |-> {} ], EmptyDict)

\* the layer of a one-layer store that holds its nodes and edges
PopulatedLayer(d) ==
    CHOOSE l \in LayerValues :
        \A k \in LayerValues \ { l } :
            len(get_layer_data(d, k).nodes) = 0 /\ len(get_layer_data(d, k).edges) = 0

\* the metrics and the evaluator's sub-scores of one store, computed as a
\* round computes them on a fresh iterator
ScoreInit ==
    /\ Harness("score")
    /\ strategy = IterationStrategy
    /\ history = << >>
    /\ dag \in { OneLayerStore(layer, n, e) :
                   layer \in LayerValues, n \in 0..MaxNodes, e \in 0..MaxEdges }
    /\ dag0 = dag

ScoreCall ==
    /\ pc = "score"
    /\ calls = 0
    /\ sub_scores' = SubScores(dag, history)
    /\ metrics' = IterationMetricsOf(dag, history)
    /\ calls' = 1
    /\ UNCHANGED << config, feedback_callback, progress_callback, strategy,
                    history, current_phase, current_iteration,
                    iteration_history, dag, initial_requirements, pc, pending,
                    user_feedback, outcome, store_fails, runs, strategy_before,
                    decisions, dag0, failed_task, callback_error >>

ScoreSpec == ScoreInit /\ [][ScoreCall]_vars

\* LayerOptimizer(layer).optimize(dag, strategy, iteration_number) called
\* directly, any layer any number of times with the iteration number held in
\* current_iteration; pending holds the layers whose optimizer has not been
\* called yet
OptimizerInit ==
    /\ config = IterationConfig(20, DefaultThreshold, DefaultFeedbackFrequency, TRUE)
    /\ feedback_callback = FALSE
    /\ progress_callback = FALSE
    /\ store_fails = FALSE
    /\ strategy \in Strategies
    /\ history = << >>
    /\ current_phase = "iterating"
    /\ current_iteration \in 1..2
    /\ iteration_history = << >>
    /\ dag \in Stores
    /\ dag0 = dag
    /\ initial_requirements = None
    /\ pc = "optimizer"
    /\ pending = LayerValues
    /\ metrics = Unbound
    /\ user_feedback = Unbound
    /\ outcome = "none"
    /\ runs = 0
    /\ sub_scores = NoScores
    /\ strategy_before = IterationStrategy
    /\ decisions = "none"
    /\ calls = 0
    /\ failed_task = "none"
    /\ callback_error = FALSE

OptimizeCall ==
    /\ pc = "optimizer"
    /\ calls < MaxPasses
    /\ \E layer_type \in LayerValues :
         /\ dag' = optimize(dag, strategy, current_iteration, layer_type)
         /\ pending' = pending \ { layer_type }
    /\ calls' = calls + 1
    /\ UNCHANGED << config, feedback_callback, progress_callback, strategy,
                    history, current_phase, current_iteration,
                    iteration_history, initial_requirements, pc, metrics,
                    user_feedback, outcome, store_fails, runs, sub_scores,
                    strategy_before, decisions, dag0, failed_task,
                    callback_error >>

OptimizerSpec == OptimizerInit /\ [][OptimizeCall]_vars

(***************************************************************************)
(* Properties.                                                             *)
(***************************************************************************)
Returned == pc = "done" /\ outcome = "returned"
Raised == pc = "done" /\ outcome = "raised"

\* the position inside a round, counted down to the return
Rank ==
    CASE pc = "idle" -> 17
      [] pc = "init" -> 16
      [] pc = "optimize" -> 10 + Cardinality(pending)
      [] pc = "evaluate" -> 10
      [] pc = "record" -> 9
      [] pc = "progress" -> 8
      [] pc = "feedback_check" -> 7
      [] pc = "feedback_request" -> 6
      [] pc = "feedback_process" -> 5
      [] pc = "convergence_check" -> 4
      [] pc = "loop" -> 3
      [] pc = "finalize" -> 2
      [] pc = "stamp" -> 1
      [] OTHER -> 0

\* rounds still allowed, then the steps left in the round
Variant == (config.max_iterations - current_iteration) * 20 + Rank

Positions ==
    { "idle", "init", "loop", "optimize", "evaluate", "record", "progress",
      "feedback_check", "feedback_request", "feedback_process",
      "convergence_check", "finalize", "stamp", "done" }

\* C1: iterate_build terminates, and current_iteration never exceeds
\* config.max_iterations, whatever the configuration and whatever the
\* callbacks return or raise: the round count stays within max_iterations,
\* the call is always at a position whose step can be taken (a round being
\* optimized has a task left to run), and every step decreases the
\* natural-number measure Variant.
C1_TerminatesWithinMaxIterations ==
    /\ [](current_iteration <= config.max_iterations)
    /\ [](Variant >= 0 /\ pc \in Positions /\ (pc = "optimize" => pending # {}))
    /\ [][Variant' < Variant]_vars

\* C1 witness: a run that used up all its rounds without converging and returned
C1_Witness ==
    /\ Returned
    /\ config.max_iterations = 5
    /\ current_iteration = config.max_iterations
    /\ metrics.convergence_score < config.convergence_threshold
    /\ feedback_callback

ValidationStatus == DictGet(dag.state, "validation_status", "None")

\* the scenario of C2: empty store, default configuration but max_iterations 5,
\* no callbacks, no requirements, a store that works
C2_Scenario ==
    /\ dag0 = EmptyStore
    /\ config = IterationConfig(5, DefaultThreshold, DefaultFeedbackFrequency, TRUE)
    /\ ~feedback_callback
    /\ ~progress_callback
    /\ ~store_fails
    /\ initial_requirements = None

\* C2: in that scenario the run never reaches the threshold, does not raise,
\* and when it returns it has run exactly 5 rounds, the phase is COMPLETED and
\* dag.state["validation_status"] is "completed".
C2_FiveRoundsThenCompleted ==
    C2_Scenario =>
        /\ ~Raised
        /\ (metrics # Unbound => metrics.convergence_score < config.convergence_threshold)
        /\ (Returned => /\ current_iteration = 5
                        /\ current_phase = "completed"
                        /\ ValidationStatus = "completed")

\* C3: when the feedback callback raises (or yields None) at a feedback point,
\* the run does not enter ERROR and raises nothing, and once the feedback is
\* processed the strategy is as before and the phase is ITERATING again.
C3_FeedbackFailureIsNotFatal ==
    user_feedback = None =>
        /\ current_phase # "error"
        /\ ~Raised
        /\ (pc = "convergence_check" =>
                strategy = strategy_before /\ current_phase = "iterating")

\* C4: after processing {decision: "adjust", adjustments: {layer_priorities:
\* {layer_feedback: {function: 0.5}}}} the function priority is
\* clamp(old + 0.5, 0.1, 2.0) and the other priorities are unchanged.
C4_NestedAdjustShiftsFunctionPriority ==
    (pc = "convergence_check" /\ user_feedback = FeedbackAdjustNested) =>
        /\ strategy.layer_priorities["function"] =
              new_priority(strategy_before.layer_priorities["function"], 5)
        /\ \A l \in LayerValues \ { "function" } :
              strategy.layer_priorities[l] = strategy_before.layer_priorities[l]

\* the scenario of C5: feedback every round, and every answer so far a reject
C5_Scenario ==
    /\ config.feedback_frequency = 1
    /\ feedback_callback
    /\ decisions \in { "none", "reject" }

StartOfLaterRound ==
    pc = "optimize" /\ pending = LayerValues /\ current_iteration > 1

EndOfRun == pc = "done"

\* C5: with feedback_frequency 1 and a callback that always rejects, the
\* strategy is the default one (focus structure, default priorities, no
\* optimization_params) at the start of every round after the first and at the
\* end of the run: when iterate_build returns, and also when it raises after a
\* feedback point.
C5_DefaultStrategyAfterReject ==
    (C5_Scenario /\ (StartOfLaterRound \/ (EndOfRun /\ (Returned \/ decisions = "reject"))))
        => strategy = IterationStrategy

\* C5 witness: a run seeded with another focus that was reset by the rejects
C5_Witness ==
    /\ C5_Scenario
    /\ Returned
    /\ decisions = "reject"
    /\ current_iteration >= 2
    /\ initial_requirements = [ focus |-> "quality" ]
    /\ strategy = IterationStrategy

\* C6: from the default strategy, after any sequence of adjust_priorities
\* calls every layer's priority lies in [0.1, 2.0].
C6_AdjustedPrioritiesInRange ==
    /\ DOMAIN strategy.layer_priorities = LayerValues
    /\ \A l \in LayerValues :
          strategy.layer_priorities[l] \in MIN_PRIORITY..MAX_PRIORITY

\* C6 witness: both ends of the clamp were hit
C6_Witness ==
    /\ pc = "strategy"
    /\ strategy.layer_priorities["function"] = MAX_PRIORITY
    /\ strategy.layer_priorities["order"] = MIN_PRIORITY
    /\ strategy.layer_priorities["logic"] = 9

\* C7: in every state of an iterate_build run each layer's priority in the
\* iterator's strategy is within [0.1, 2.0].
C7_RunPrioritiesInRange ==
    pc # "idle" =>
        \A l \in DOMAIN strategy.layer_priorities :
            /\ strategy.layer_priorities[l] >= MIN_PRIORITY
            /\ strategy.layer_priorities[l] <= MAX_PRIORITY

\* C8: for every data store and every history, evaluate_convergence and each
\* of its four sub-scores are in [0, 1].
C8_ScoresInUnitInterval ==
    (pc = "evaluator" /\ calls = 1) =>
        /\ metrics.convergence_score \in 0..Scale
        /\ \A k \in DOMAIN sub_scores : sub_scores[k] \in 0..Scale

\* C8 witness: a full store whose history is so unsteady that stability is cut to 0
C8_Witness ==
    /\ pc = "evaluator"
    /\ calls = 1
    /\ sub_scores.stability = 0
    /\ sub_scores.structure = Scale
    /\ sub_scores.consistency = Scale
    /\ metrics.convergence_score = DefaultThreshold

\* C9: after n add_metrics calls the history holds the min(n, 50) most recent
\* entries in the order they were appended.
C9_HistoryKeepsLastFifty ==
    pc = "history" =>
        /\ Len(history) = Min(calls, 50)
        /\ \A i \in 1..Len(history) :
              history[i].iteration_number = calls - Len(history) + i

\* C9 witness: after 60 appends the history is entries 11..60
C9_Witness ==
    /\ pc = "history"
    /\ calls = 60
    /\ Len(history) = 50
    /\ history[1].iteration_number = 11
    /\ history[50].iteration_number = 60

\* max(0, 1 - 10 * population variance) of three scores
StabilityOfThree(a, b, c) ==
    LET mean == (a + b + c) \div 3
        variance == ((a - mean) * (a - mean) + (b - mean) * (b - mean)
                     + (c - mean) * (c - mean)) \div 3
    IN  Max(0, Scale - (variance * 10) \div Scale)

\* C10: the stability sub-score is 0.5 while the history holds fewer than 3
\* entries; round k is scored before its metrics are appended, so rounds 1..3
\* are scored with 0.5 and round k >= 4 with the scores of rounds k-3..k-1.
C10_StabilityUsesThreePreviousRounds ==
    pc = "record" =>
        /\ Len(history) = current_iteration - 1
        /\ Len(iteration_history) = current_iteration - 1
        /\ (Len(history) < 3 => sub_scores.stability = Scale \div 2)
        /\ (current_iteration <= 3 => sub_scores.stability = Scale \div 2)
        /\ (current_iteration >= 4 =>
              sub_scores.stability =
                StabilityOfThree(iteration_history[current_iteration - 3].convergence_score,
                                 iteration_history[current_iteration - 2].convergence_score,
                                 iteration_history[current_iteration - 1].convergence_score))

\* C10 witness: round 5 scored with the unequal scores of rounds 2..4
C10_Witness ==
    /\ pc = "record"
    /\ current_iteration = 5
    /\ iteration_history[3].convergence_score # iteration_history[4].convergence_score
    /\ sub_scores.stability \notin { 0, Scale \div 2, Scale }

\* the node collection of a layer
NodesOf(d, layer_type) == get_layer_data(d, layer_type).nodes

SeedNodes == 1..3

\* C11: a structure pass with iteration_number 1 on a layer that already has a
\* node adds none, so however often the pass runs on a layer that started
\* empty, the layer holds exactly the three seed nodes <layer>_1..<layer>_3.
C11_SeedingIsIdempotent ==
    /\ [][\A l \in LayerValues :
            NodesOf(dag, l) # {} => NodesOf(dag', l) = NodesOf(dag, l)]_vars
    /\ [](\A l \in LayerValues :
            (/\ strategy.current_focus = "structure"
             /\ current_iteration = 1
             /\ l \notin pending
             /\ NodesOf(dag0, l) = {}) => NodesOf(dag, l) = SeedNodes)

\* C11 witness: the pass ran twice on the logic layer only, which started empty
C11_Witness ==
    /\ pc = "optimizer"
    /\ strategy.current_focus = "structure"
    /\ current_iteration = 1
    /\ calls = 2
    /\ pending = LayerValues \ { "logic" }
    /\ NodesOf(dag0, "logic") = {}
    /\ NodesOf(dag, "logic") = SeedNodes

\* the first round of the run has been executed and recorded
FirstRoundDone == Len(iteration_history) >= 1

\* C12: after the first round of any run, whatever the initial_requirements,
\* every layer has at least one node, and a layer is seeded at most once: a
\* layer that has nodes is never given nodes again.
C12_EveryLayerSeededOnce ==
    /\ [](FirstRoundDone => \A l \in LayerValues : NodesOf(dag, l) # {})
    /\ [][\A l \in LayerValues :
            NodesOf(dag, l) # {} => NodesOf(dag', l) = NodesOf(dag, l)]_vars

\* the documented phase graph
PhaseGraph ==
    { << "initializing", "iterating" >>,
      << "iterating", "waiting_feedback" >>,
      << "waiting_feedback", "processing_feedback" >>,
      << "processing_feedback", "iterating" >>,
      << "iterating", "finalizing" >>,
      << "finalizing", "completed" >> }
    \cup { << p, "error" >> : p \in IterationPhase }

\* C13: every change of current_phase is an edge of the documented graph; in
\* particular COMPLETED is entered only from FINALIZING, FINALIZING only from
\* ITERATING and PROCESSING_FEEDBACK only from WAITING_FEEDBACK.
C13_PhaseChangesFollowGraph ==
    [][current_phase' # current_phase =>
          << current_phase, current_phase' >> \in PhaseGraph]_vars

\* C13 witness: a run that went through a feedback point and then completed
C13_Witness ==
    /\ current_phase = "completed"
    /\ user_feedback \in Feedbacks
    /\ Returned

\* C14: whenever iterate_build raises an exception that is not a callback
\* failure (from seeding the strategy, an optimizer, the evaluator, feedback
\* preparation or processing, or the final stamping), the iterator is left in
\* phase ERROR.
C14_RaisedLeavesPhaseError ==
    Raised => current_phase = "error"

\* C15: once the phase of an iterator is ERROR, no later step of the instance,
\* a repeated iterate_build call included, moves it to another phase, and no
\* further round is executed.
C15_ErrorIsAbsorbing ==
    [][current_phase = "error" =>
          /\ current_phase' = "error"
          /\ current_iteration' = current_iteration
          /\ iteration_history' = iteration_history]_vars

\* the metrics of the current round reach the threshold
Converged ==
    metrics # Unbound /\ metrics.convergence_score >= config.convergence_threshold

\* C16: when the convergence check of round k finds a score at or above the
\* threshold the phase becomes FINALIZING, the step out of FINALIZING stamps
\* validation_status "passed" and a last_modified time and enters COMPLETED
\* within round k, no round is started after a round that reached the
\* threshold, and FINALIZING / COMPLETED are never held in a round whose score
\* is below the threshold.
C16_ThresholdFinalizesTheRun ==
    /\ [][(pc = "convergence_check" /\ Converged) =>
             (current_phase' = "finalizing" /\ current_iteration' = current_iteration)]_vars
    /\ [][current_phase = "finalizing" =>
             /\ current_phase' = "completed"
             /\ current_iteration' = current_iteration
             /\ DictGet(dag'.state, "validation_status", "None") = "passed"
             /\ "last_modified" \in DOMAIN dag'.state]_vars
    /\ [][current_iteration' > current_iteration => ~Converged]_vars
    /\ [](current_phase \in { "finalizing", "completed" } => Converged)
    /\ []((Returned /\ Converged) => current_phase = "completed")

\* C16 witness: a run that reached the threshold in its second round or later,
\* just stamped and completed
C16_Witness ==
    /\ pc = "stamp"
    /\ current_phase = "completed"
    /\ current_iteration >= 2
    /\ Converged
    /\ dag.state["validation_status"] = "passed"

\* C17: on every loop exit, by threshold or by exhausting max_iterations, for
\* every max_iterations >= 0 (a loop that runs no round included), the call
\* returns the data store stamped with the final iteration count, the last
\* round's convergence score and validation_status "completed".
C17_LoopExitStampsAndReturns ==
    [][pc = "stamp" =>
          /\ outcome' = "returned"
          /\ dag'.state["current_iteration"] = current_iteration
          /\ (iteration_history # << >> =>
                dag'.state["convergence_score"] =
                    iteration_history[Len(iteration_history)].convergence_score)
          /\ DictGet(dag'.state, "validation_status", "None") = "completed"]_vars

\* C18: a progress callback that raises changes nothing: the step out of the
\* callback, whether it returned or raised, leaves every field as it was and
\* goes on to the feedback check of the same round without raising or entering
\* ERROR; the callback is invoked once per round, entered only from the
\* recording of that round's metrics, which are then the last entry of both
\* histories.
C18_ProgressFailureIsHarmless ==
    /\ [][pc = "progress" =>
             /\ pc' = "feedback_check"
             /\ UNCHANGED << config, strategy, history, current_phase,
                             current_iteration, iteration_history, dag, metrics,
                             pending, user_feedback, outcome >>]_vars
    /\ [][pc' = "progress" => (pc = "record" /\ progress_callback)]_vars
    /\ [][(pc = "record" /\ progress_callback) => pc' = "progress"]_vars
    /\ [](pc = "progress" =>
             /\ current_phase = "iterating"
             /\ Len(iteration_history) = current_iteration
             /\ iteration_history[Len(iteration_history)] = metrics
             /\ history[Len(history)] = metrics
             /\ metrics.iteration_number = current_iteration)

\* C18 witness: the progress callback raised in round 2 and the round went on
\* through its feedback and convergence checks
C18_Witness ==
    /\ progress_callback
    /\ ~feedback_callback
    /\ callback_error
    /\ pc = "loop"
    /\ current_iteration = 2
    /\ current_phase = "iterating"
    /\ outcome = "running"

\* the round is over: its metrics are computed, or it raised
RoundOver == pc = "record" \/ pc = "done"

\* what the sequential round yields from the store the round started with,
\* when its failing optimizer (if any) is f
SequentialRoundFrom(f) ==
    SequentialOptimizers(dag0, strategy, current_iteration, f, 1)

\* C19 as stated: a round run with parallel_optimization leaves the store and
\* produces the outcome (the same metrics, or an error) of some round run
\* sequentially on the same store, strategy and iteration number.
C19_ParallelRoundEqualsSequential ==
    RoundOver =>
        \E f \in LayerValues \cup { "none" } :
            /\ dag = SequentialRoundFrom(f).dag
            /\ (pc = "done") = SequentialRoundFrom(f).raised
            /\ (pc = "record" => metrics = IterationMetricsOf(SequentialRoundFrom(f).dag, history))

\* C19 amended: a round in which no optimizer raises leaves the same store and
\* the same metrics in both modes; a round in which an optimizer raises ends
\* in an error in both modes and computes no metrics.
C19_ParallelRoundEqualsSequentialUnlessRaised ==
    /\ (RoundOver /\ failed_task = "none") =>
            /\ pc = "record"
            /\ dag = SequentialRoundFrom("none").dag
            /\ metrics = IterationMetricsOf(SequentialRoundFrom("none").dag, history)
    /\ (RoundOver /\ failed_task # "none") =>
            /\ pc = "done"
            /\ outcome = "raised"
            /\ metrics = Unbound

\* C19 witness: a parallel round 1 under focus structure that seeded layers
\* and produced its metrics
C19_Witness ==
    /\ config.parallel_optimization
    /\ pc = "record"
    /\ current_iteration = 1
    /\ dag0 = PartialStore
    /\ dag # dag0
    /\ metrics # Unbound

\* the layers whose optimizer ran in this step
OptimizedInStep == pending \ pending'

\* C20: the optimizer of layer L changes nothing but the node collection of
\* L: no other layer's nodes, no layer's edges, not the cross-layer mappings,
\* not the state bag; and it changes nothing at all unless the focus is
\* STRUCTURE, the iteration number is 1 and layer L is empty.  No step of a
\* run removes a node.
C20_OptimizerTouchesOnlyItsLayer ==
    /\ [][pc = "optimize" =>
             /\ \A l \in LayerValues :
                  /\ get_layer_data(dag', l).edges = get_layer_data(dag, l).edges
                  /\ (l \notin OptimizedInStep => NodesOf(dag', l) = NodesOf(dag, l))
             /\ dag'.mappings = dag.mappings
             /\ dag'.state = dag.state
             /\ dag'.metadata = dag.metadata
             /\ (dag' # dag =>
                  /\ strategy.current_focus = "structure"
                  /\ current_iteration = 1
                  /\ \E l \in OptimizedInStep : NodesOf(dag, l) = {})]_vars
    /\ [][\A l \in LayerValues :
             /\ NodesOf(dag, l) \subseteq NodesOf(dag', l)
             /\ len(NodesOf(dag, l)) <= len(NodesOf(dag', l))]_vars

\* C20 witness: in round 1 of a parallel run the logic optimizer alone has run
\* on a store whose function layer was populated, and seeded its own layer
C20_Witness ==
    /\ pc = "optimize"
    /\ current_iteration = 1
    /\ pending = LayerValues \ { "logic" }
    /\ dag0 = PartialStore
    /\ dag = _create_initial_nodes(dag0, "logic")
    /\ NodesOf(dag, "logic") = SeedNodes

\* round k is a feedback point of the configuration
FeedbackRound ==
    /\ config.feedback_frequency # 0
    /\ current_iteration % config.feedback_frequency = 0

\* C21: with a feedback callback registered, the callback is requested in
\* round k exactly when k % feedback_frequency = 0, from the feedback test that
\* each round passes once; the decision is applied and the phase is ITERATING
\* again within round k, so every optimizer runs in phase ITERATING with a
\* strategy that no step outside feedback processing changes.  With no
\* callback registered the phase is never WAITING_FEEDBACK or
\* PROCESSING_FEEDBACK and the loop never changes the strategy.
C21_FeedbackOnlyAtFeedbackPoints ==
    /\ [][pc' = "feedback_request" =>
             (pc = "feedback_check" /\ feedback_callback /\ FeedbackRound)]_vars
    /\ [][(pc = "feedback_check" /\ feedback_callback /\ FeedbackRound) =>
             (pc' = "feedback_request" /\ current_phase' = "waiting_feedback")]_vars
    /\ [][pc' = "feedback_check" =>
             (pc \in { "record", "progress" } /\ Len(iteration_history') = current_iteration')]_vars
    /\ [][(pc = "feedback_process" /\ pc' # "done") =>
             /\ strategy' = _process_user_feedback(strategy, user_feedback)
             /\ current_phase' = "iterating"
             /\ current_iteration' = current_iteration
             /\ pc' = "convergence_check"]_vars
    /\ [][pc \notin { "init", "feedback_process" } => strategy' = strategy]_vars
    /\ [](pc = "optimize" => current_phase = "iterating")
    /\ [](current_phase \in { "waiting_feedback", "processing_feedback" } =>
             (feedback_callback /\ FeedbackRound))
    /\ [](~feedback_callback =>
             /\ current_phase \notin { "waiting_feedback", "processing_feedback" }
             /\ user_feedback = Unbound)

\* C21 witness: with a callback every third round, round 4 optimizes under the
\* focus that the decision of round 3 set
C21_Witness ==
    /\ feedback_callback
    /\ config.feedback_frequency = 3
    /\ pc = "optimize"
    /\ current_iteration = 4
    /\ current_phase = "iterating"
    /\ strategy.current_focus = "dependencies"
    /\ initial_requirements = None

\* the decision and the strategy adjustments of the latest feedback
Decision == DictGet(user_feedback, "decision", "continue")
StrategyAdjustments ==
    DictGet(DictGet(user_feedback, "adjustments", EmptyDict), "strategy", EmptyDict)

\* C22: a decision other than "reject" and "adjust" (a missing one included)
\* leaves focus, priorities and optimization_params as they were; "adjust"
\* with a focus that is no valid focus name leaves the focus as it was and
\* still merges the given optimization_params into the existing map, keeping
\* the entries it does not name; only "reject" replaces the strategy, by the
\* default one.
C22_FeedbackChangesStrategyAsDocumented ==
    calls > 0 =>
        /\ (Decision \notin { "reject", "adjust" } => strategy = strategy_before)
        /\ (Decision = "reject" => strategy = IterationStrategy)
        /\ (Decision = "adjust" =>
              /\ (("focus" \in DOMAIN StrategyAdjustments
                    /\ StrategyAdjustments["focus"] \notin OptimizationFocus)
                   => strategy.current_focus = strategy_before.current_focus)
              /\ LET given == DictGet(StrategyAdjustments, "optimization_params", EmptyDict)
                     before == strategy_before.optimization_params
                 IN  /\ DOMAIN strategy.optimization_params = DOMAIN before \cup DOMAIN given
                     /\ \A k \in DOMAIN strategy.optimization_params :
                          strategy.optimization_params[k] =
                              IF k \in DOMAIN given THEN given[k] ELSE before[k])

\* C22 witness: an adjust with an invalid focus merged width into a map that
\* already held depth, under a focus set by an earlier adjust
C22_Witness ==
    /\ pc = "feedback"
    /\ user_feedback = FeedbackAdjustBadFocus
    /\ strategy_before.optimization_params = [ depth |-> 2 ]
    /\ strategy.optimization_params = [ depth |-> 2, width |-> 1 ]
    /\ strategy.current_focus = "dependencies"

\* C23: adjust_priorities sets the priority of each layer named in
\* layer_feedback to current + delta clamped to [0.1, 2.0] and changes nothing
\* else: names that are no layer are ignored, layers not named keep their
\* priority, focus and optimization_params stay, and a feedback map without
\* layer_feedback changes nothing.
C23_AdjustPrioritiesChangesOnlyNamedLayers ==
    \A feedback \in PriorityFeedbacks :
        LET after == adjust_priorities(strategy, feedback)
            named == IF "layer_feedback" \in DOMAIN feedback
                     THEN DOMAIN feedback["layer_feedback"] \cap LayerValues
                     ELSE {}
        IN  /\ after.current_focus = strategy.current_focus
            /\ after.optimization_params = strategy.optimization_params
            /\ DOMAIN after.layer_priorities = DOMAIN strategy.layer_priorities
            /\ \A l \in DOMAIN strategy.layer_priorities \ named :
                  after.layer_priorities[l] = strategy.layer_priorities[l]
            /\ \A l \in named :
                  LET sum == strategy.layer_priorities[l] + feedback["layer_feedback"][l]
                  IN  after.layer_priorities[l] =
                          IF sum < MIN_PRIORITY THEN MIN_PRIORITY
                          ELSE IF sum > MAX_PRIORITY THEN MAX_PRIORITY
                          ELSE sum
            /\ ("layer_feedback" \notin DOMAIN feedback => after = strategy)

\* C23 witness: function was raised by 0.5 and logic lowered twice by 0.1,
\* code and order are as constructed
C23_Witness ==
    /\ pc = "strategy"
    /\ strategy.layer_priorities =
          [ function |-> 15, logic |-> 8, code |-> DEFAULT_PRIORITY,
            order |-> DEFAULT_PRIORITY ]
    /\ strategy.current_focus = "structure"

\* C24 as stated: for the layer under evaluation there are a node count
\* n >= 2 and an edge count for which the metrics' per-layer score and the
\* evaluator's per-layer structure-completeness score differ.
C24_LayerScoresDifferSomewhere ==
    LET layer == PopulatedLayer(dag)
    IN  \E n \in 2..MaxNodes, e \in 0..MaxEdges :
            _calculate_layer_score(OneLayerStore(layer, n, e), layer)
                # _evaluate_structure_completeness(OneLayerStore(layer, n, e))

\* C24: the metrics' per-layer score (edges over n(n-1)/2, times 5) and the
\* evaluator's per-layer structure-completeness score (edges over n(n-1),
\* times 10) are the same number for every node count n >= 1 and every edge
\* count; an empty layer scores 0 in the metrics and is skipped by the
\* evaluator.
C24_LayerScoresCoincide ==
    calls = 1 =>
        LET layer == PopulatedLayer(dag)
            n == len(get_layer_data(dag, layer).nodes)
            e == len(get_layer_data(dag, layer).edges)
        IN  /\ metrics.layer_scores[layer] = sub_scores.structure
            /\ (n >= 1 => metrics.layer_scores[layer] = structure_layer_score(n, e))
            /\ (n = 0 => metrics.layer_scores[layer] = 0)
            /\ \A k \in LayerValues \ { layer } : metrics.layer_scores[k] = 0

\* C24 witness: six nodes and two edges in the logic layer, where neither
\* edge score is saturated: (1.0 + 2/15*5) / 2 = (1.0 + 2/30*10) / 2
C24_Witness ==
    /\ pc = "score"
    /\ calls = 1
    /\ dag = OneLayerStore("logic", 6, 2)
    /\ metrics.layer_scores["logic"] = 833
    /\ sub_scores.structure = 833

\* C25: whenever iterate_build has returned normally the store's
\* validation_status is "completed", also when the threshold was reached: the
\* step out of FINALIZING writes "passed", the only step that returns is the
\* final stamping that follows it, and that step writes "completed" over it.
C25_ReturnedStoreIsCompletedNeverPassed ==
    /\ [](Returned => ValidationStatus = "completed")
    /\ [][pc = "finalize" => (pc' = "stamp" /\ ValidationStatus' = "passed")]_vars
    /\ [][(pc' = "done" /\ outcome' = "returned") =>
             (pc = "stamp" /\ ValidationStatus' = "completed")]_vars

\* C25 witness: a run on the empty store returned after reaching the
\* threshold, with "completed" where FINALIZING had written "passed"
C25_Witness ==
    /\ Returned
    /\ Converged
    /\ current_phase = "completed"
    /\ dag0 = EmptyStore
    /\ "last_modified" \in DOMAIN dag.state
    /\ ValidationStatus = "completed"

\* the position that follows pc on the way from the convergence test of a
\* converged round to the return
AfterConverged ==
    CASE pc = "convergence_check" -> "finalize"
      [] pc = "finalize" -> "stamp"
      [] OTHER -> "done"

\* C26: in a round that is a feedback point and whose score reached the
\* threshold, the callback is requested, the decision it returns is applied
\* before the convergence test, and from there the round finalizes, stamps and
\* returns with phase COMPLETED without starting another round, whatever the
\* decision; the metrics tested are those computed before the feedback.
C26_FeedbackNeverPostponesCompletion ==
    /\ [][(pc = "feedback_check" /\ feedback_callback /\ FeedbackRound /\ Converged
              /\ pc' # "done") => pc' = "feedback_request"]_vars
    /\ [][(pc \in { "feedback_request", "feedback_process" } /\ Converged) =>
             (metrics' = metrics /\ current_iteration' = current_iteration)]_vars
    /\ [][(pc = "feedback_process" /\ Converged /\ user_feedback # None) =>
             /\ strategy' = _process_user_feedback(strategy, user_feedback)
             /\ pc' = "convergence_check"
             /\ outcome' = "running"]_vars
    /\ [][(pc \in { "convergence_check", "finalize", "stamp" } /\ Converged) =>
             /\ pc' = AfterConverged
             /\ metrics' = metrics
             /\ strategy' = strategy
             /\ current_iteration' = current_iteration
             /\ outcome' = IF pc = "stamp" THEN "returned" ELSE "running"
             /\ (pc = "stamp" => current_phase' = "completed")]_vars
    /\ [](pc = "finalize" => (Converged /\ current_phase = "finalizing"))
    /\ []((pc = "loop" /\ current_iteration > 0) => ~Converged)

\* C26 witness: a later round was a feedback point and reached the threshold,
\* the callback rejected, the strategy changed by earlier feedback was reset,
\* and the run returned completed in that round
C26_Witness ==
    /\ Returned
    /\ Converged
    /\ feedback_callback
    /\ FeedbackRound
    /\ current_iteration >= 2
    /\ user_feedback = FeedbackReject
    /\ strategy_before # IterationStrategy
    /\ strategy = IterationStrategy
    /\ current_phase = "completed"

\* the last n entries of a sequence
LastEntries(seq, n) == SubSeq(seq, Len(seq) - n + 1, Len(seq))

\* C27: on a fresh iterator the evaluator's history is the last min(50, n)
\* entries of iteration_history in the same order, n being the number of
\* rounds recorded, which between rounds is the number of rounds completed;
\* iteration_history only grows by appending, and its entry i has
\* iteration_number i.
C27_EvaluatorHistoryIsTailOfIterationHistory ==
    /\ [](history = LastEntries(iteration_history,
                                Min(MAX_HISTORY, Len(iteration_history))))
    /\ [](\A i \in 1..Len(iteration_history) :
             iteration_history[i].iteration_number = i)
    /\ [](pc \in { "loop", "stamp" } => Len(iteration_history) = current_iteration)
    /\ [][/\ Len(iteration_history') >= Len(iteration_history)
          /\ SubSeq(iteration_history', 1, Len(iteration_history)) = iteration_history]_vars

\* C27 witness: 52 rounds are recorded and the evaluator holds rounds 3 to 52
C27_Witness ==
    /\ pc = "loop"
    /\ current_iteration = MAX_HISTORY + 2
    /\ Len(iteration_history) = MAX_HISTORY + 2
    /\ Len(history) = MAX_HISTORY
    /\ history[1].iteration_number = 3
    /\ iteration_history[1].iteration_number = 1

\* a callback is running: the progress callback of lines 478-483 or the
\* feedback request of lines 491-492
InProgressCallback == pc = "progress"
InFeedbackCallback == pc = "feedback_request"

\* C28: while a progress or feedback callback runs in the first iterate_build
\* call of an iterator, get_current_status() reports history_count = iteration
\* and last_metrics.iteration_number = iteration; the phase handed to the
\* progress callback is "iterating" and the status phase during the feedback
\* callback is "waiting_feedback".
C28_StatusIsConsistentInCallbacks ==
    /\ (InProgressCallback \/ InFeedbackCallback) =>
          /\ get_current_status.iteration >= 1
          /\ get_current_status.history_count = get_current_status.iteration
          /\ get_current_status.last_metrics # None
          /\ get_current_status.last_metrics.iteration_number
                = get_current_status.iteration
    /\ InProgressCallback =>
          /\ progress_data.phase = "iterating"
          /\ progress_data.iteration = get_current_status.iteration
          /\ get_current_status.phase = "iterating"
    /\ InFeedbackCallback => get_current_status.phase = "waiting_feedback"

\* C28 witness: the feedback callback of round 3 is running, after the
\* progress callback of that round
C28_Witness ==
    /\ InFeedbackCallback
    /\ progress_callback
    /\ get_current_status.iteration = 3
    /\ get_current_status.history_count = 3
    /\ get_current_status.phase = "waiting_feedback"
    /\ config.feedback_frequency = 3

ZeroFrequency == config.feedback_frequency = 0

\* C29: with feedback_frequency = 0 the feedback test of round 1 raises,
\* with or without a feedback callback: the run ends there in phase ERROR with
\* an exception for the caller, the store being as round 1's optimizers left
\* it and the round's metrics being the one entry of both histories; no run
\* with frequency 0 gets past its first round or returns, and a run that ends
\* in its first round ends in phase ERROR.
C29_ZeroFrequencyFailsInRoundOne ==
    /\ [][(pc = "feedback_check" /\ ZeroFrequency) =>
             /\ pc' = "done" /\ outcome' = "raised" /\ current_phase' = "error"
             /\ current_iteration = 1
             /\ dag = SequentialRoundFrom("none").dag
             /\ dag' = dag
             /\ iteration_history = << metrics >>
             /\ history = << metrics >>
             /\ iteration_history' = iteration_history
             /\ history' = history]_vars
    /\ [][(pc \in { "record", "progress" } /\ ZeroFrequency) =>
             pc' \in { "progress", "feedback_check" }]_vars
    /\ [](ZeroFrequency =>
             /\ current_iteration <= 1
             /\ pc \notin { "feedback_request", "feedback_process",
                            "convergence_check", "finalize" }
             /\ (pc = "loop" => current_iteration = 0)
             /\ (pc = "done" => Raised)
             /\ ((pc = "done" /\ current_iteration = 1) => current_phase = "error"))

\* C29 witness: no feedback callback, frequency 0, an empty store that works:
\* the run raised in round 1 with the seeded store and one recorded round
C29_Witness ==
    /\ ZeroFrequency
    /\ ~feedback_callback
    /\ ~store_fails
    /\ Raised
    /\ current_phase = "error"
    /\ current_iteration = 1
    /\ dag0 = EmptyStore
    /\ dag # dag0
    /\ Len(iteration_history) = 1
    /\ Len(history) = 1

\* the rounds the current call has recorded so far, and the rounds that
\* earlier calls left in iteration_history
RecordedInThisCall ==
    IF pc \in { "optimize", "evaluate", "record" }
    THEN current_iteration - 1
    ELSE current_iteration
RecordedBefore == Len(iteration_history) - RecordedInThisCall

InSecondCall == runs = 2 /\ pc # "done"

\* C30: a second iterate_build call on an iterator resets the phase and
\* current_iteration and keeps the strategy, iteration_history and the
\* evaluator's history; in the second call both histories hold the first
\* call's rounds followed by the second call's, the stability sub-score of a
\* round is computed from that history (from its last three scores once it
\* has three, which in rounds 1..3 include scores of the first call), and
\* get_current_status() has history_count = iteration + the rounds of the
\* first call, which differs from iteration when the first call recorded a round.
C30_SecondCallKeepsStrategyAndHistories ==
    /\ [][(pc = "done" /\ pc' # "done") =>
             /\ current_phase' = "initializing"
             /\ current_iteration' = 0
             /\ strategy' = strategy
             /\ iteration_history' = iteration_history
             /\ history' = history
             /\ dag' = dag]_vars
    /\ [](InSecondCall =>
             /\ RecordedBefore >= 0
             /\ history = iteration_history
             /\ \A i \in 1..Len(iteration_history) :
                  iteration_history[i].iteration_number =
                      IF i <= RecordedBefore THEN i ELSE i - RecordedBefore
             /\ get_current_status.history_count
                   = RecordedInThisCall + RecordedBefore
             /\ ((RecordedBefore >= 1 /\ pc \in { "progress", "feedback_request" }) =>
                   get_current_status.history_count # get_current_status.iteration))
    /\ []((InSecondCall /\ pc = "record") =>
             /\ Len(history) = RecordedBefore + current_iteration - 1
             /\ sub_scores.stability = _evaluate_stability(history)
             /\ ((current_iteration <= 3 /\ Len(history) >= 3) =>
                   /\ RecordedBefore >= 1
                   /\ sub_scores.stability =
                         stability_of([ i \in 1..3 |->
                             history[Len(history) - 3 + i].convergence_score ])))

\* C30 witness: the first call ran three rounds and feedback in its third
\* round changed the focus; the second call, without requirements, has
\* evaluated its first round under that focus with the stability of the
\* first call's three scores
C30_Witness ==
    /\ InSecondCall
    /\ pc = "record"
    /\ current_iteration = 1
    /\ initial_requirements = None
    /\ RecordedBefore = 3
    /\ strategy.current_focus = "dependencies"
    /\ strategy.optimization_params = [ depth |-> 2 ]
    /\ sub_scores.stability # Scale \div 2
====
